---- MODULE Spec2Model ----
(***************************************************************************)
(* The challenge page of code-fixer-academy (src/pages/Challenge.tsx) and  *)
(* the store it writes to (the schema and seed rows kept at the end of     *)
(* src/integrations/supabase/types.ts).                                    *)
(*                                                                         *)
(* A string is a tuple of one-character strings, so that String.trim and   *)
(* string concatenation are computed and not assumed.  The page is one     *)
(* mounted Challenge component of one signed-in user; its asynchronous     *)
(* parts (the lesson fetch, the two setTimeout callbacks, the three store  *)
(* calls of saveProgress) are separate steps that interleave with the      *)
(* user's clicks.  isFirstChallenge and the confetti it triggers are       *)
(* display only and are left out.                                          *)
(***************************************************************************)
EXTENDS Integers, Sequences, FiniteSets, TLC

\* ------------------------------------------------------------------ bounds

\* Check Solution is not clicked any more once attempts has reached this.
MaxAttempts == 3
\* Passes (calls of saveProgress) in one run of the page.
MaxCompletions == 2
\* Lesson fetches issued in one run of the page (the one at mount included).
MaxFetches == 2
\* Length of the strings the evaluator is tried on.
MaxLen == 3
\* The highest hint index the user reveals by hand.
MaxHintIndex == 1
\* Inserts into user_badges asked for in one run of the badge table.
MaxGrants == 4
\* Rows of public.profiles the leaderboard is fetched from.
MaxProfiles == 52
\* The profiles' points: row i has ((i * k) % m) * 10 points, for a step k
\* up to MaxStep and a modulus m up to MaxModulus.
MaxStep == 3
MaxModulus == 4
\* Rows of user_progress the statistics are computed from.
MaxRecords == 9
\* Row i was completed on day (start + i * step) % 9 of the days tried, for
\* a step up to MaxDayStep.
MaxDayStep == 3

\* ----------------------------------------------------------------- strings

\* null, where a lesson object is expected.
Null == [id |-> 0, gen |-> 0]

\* The characters String.prototype.trim removes, among those used here.
WhiteSpace == {" ", "\n", "\t"}

RECURSIVE trimStart(_)
trimStart(s) ==
    IF s # <<>> /\ Head(s) \in WhiteSpace THEN trimStart(Tail(s)) ELSE s

RECURSIVE trimEnd(_)
trimEnd(s) ==
    IF s # <<>> /\ s[Len(s)] \in WhiteSpace
    THEN trimEnd(SubSeq(s, 1, Len(s) - 1))
    ELSE s

\* trim with the end of the string left as it is.
trimLeadingOnly(s) == trimStart(s)

\* The white space removed everywhere, inside the string as well.
removeWhiteSpace(s) == SelectSeq(s, LAMBDA c : c \notin WhiteSpace)

trim(s) == trimEnd(trimStart(s))

\* ----------------------------------------------------------- lesson catalog

Languages == {"python", "javascript", "java", "cpp", "go", "rust"}

\* The languages the user picks in the Select, among Languages: the one
\* with the solvable lesson, one whose first lesson expects the same output,
\* one whose lesson has no hint, and one without lessons.
LanguageInputs == {"python", "java", "go", "rust"}

\* The substrings of the editor's code that runCode looks for; a code is
\* modelled by the set of these it includes.
Range16 == "range(1, 6)"
Range17 == "range(1, 7)"

OneToFive == <<"1", "\n", "2", "\n", "3", "\n", "4", "\n", "5">>

\* public.lessons: the six seed rows, and a seventh row that takes the
\* column defaults (hints '{}', points 10) and whose expected output ends
\* with a line break.  id stands for the row's uuid.
DbLessons ==
    <<  [id |-> 1, title |-> "Off-by-One Error in Loop", language |-> "python",
         difficulty |-> "easy", starter_code |-> {Range17},
         expected_output |-> OneToFive, hints |-> 2, points |-> 10,
         order_index |-> 1],
        [id |-> 2, title |-> "Variable Scope Issue", language |-> "python",
         difficulty |-> "medium", starter_code |-> {},
         expected_output |-> <<"2", "0">>, hints |-> 3, points |-> 15,
         order_index |-> 2],
        [id |-> 3, title |-> "Equality vs Identity", language |-> "javascript",
         difficulty |-> "easy", starter_code |-> {},
         expected_output |-> <<"N", "u", "m", "b", "e", "r", " ", "i", "s",
                               " ", "f", "i", "v", "e">>,
         hints |-> 2, points |-> 10, order_index |-> 3],
        [id |-> 4, title |-> "Async Function Issue", language |-> "javascript",
         difficulty |-> "hard", starter_code |-> {},
         expected_output |-> <<"D", "a", "t", "a", " ", "l", "o", "a", "d",
                               "e", "d">>,
         hints |-> 3, points |-> 25, order_index |-> 4],
        [id |-> 5, title |-> "Array Index Error", language |-> "java",
         difficulty |-> "easy", starter_code |-> {},
         expected_output |-> OneToFive, hints |-> 2, points |-> 10,
         order_index |-> 5],
        [id |-> 6, title |-> "Memory Leak", language |-> "cpp",
         difficulty |-> "hard", starter_code |-> {},
         expected_output |-> <<"4", "2">>, hints |-> 2, points |-> 25,
         order_index |-> 6],
        [id |-> 7, title |-> "Default Row", language |-> "go",
         difficulty |-> "expert", starter_code |-> {},
         expected_output |-> <<"o", "k", "\n">>, hints |-> 0, points |-> 10,
         order_index |-> 7]  >>

LessonIds == DOMAIN DbLessons

Lesson(id) == DbLessons[id]

\* supabase.from('lessons').select('*').eq('language', l).order('order_index'):
\* the ids of the rows of language l, by ascending order_index.
RECURSIVE orderByIndex(_)
orderByIndex(ids) ==
    IF ids = {} THEN <<>>
    ELSE LET first == CHOOSE i \in ids :
                        \A j \in ids : Lesson(i).order_index <= Lesson(j).order_index
         IN  <<first>> \o orderByIndex(ids \ {first})

listLessons(l) == orderByIndex({i \in LessonIds : Lesson(i).language = l})

\* public.badges: the five seed rows.  id stands for the row's uuid.
DbBadges ==
    {[id |-> 1, name |-> "First Debug", badge_type |-> "first_debug",
      requirement_value |-> 1],
     [id |-> 2, name |-> "Streak Master", badge_type |-> "consecutive_solves",
      requirement_value |-> 10],
     [id |-> 3, name |-> "Python Expert", badge_type |-> "language_master",
      requirement_value |-> 10],
     [id |-> 4, name |-> "Speed Demon", badge_type |-> "speed_demon",
      requirement_value |-> 30],
     [id |-> 5, name |-> "Accuracy Ace", badge_type |-> "accuracy_ace",
      requirement_value |-> 5]}


\* ------------------------------------------------------------------- state

User == "u1"

VARIABLES
    \* useState of Challenge
    lessons,            \* the fetched list: a sequence of lesson objects
    currentLesson,      \* a lesson object, or Null
    code,               \* the set of runCode's substrings the editor's text includes
    output,             \* a string
    showHints,          \* the indices i with showHints[i] === true
    isRunning,
    selectedLanguage,
    loading,
    attempts,
    \* what the page has under way
    fetches,            \* fetchLessons calls awaiting the store's answer
    nFetches,           \* fetchLessons calls made so far
    timers,             \* pending setTimeout(..., 1500) callbacks, oldest first
    saves,              \* the saveProgress calls made so far, each with its position
                        \* and the values it still has a use for
    \* the store
    user_progress,      \* rows of public.user_progress
    profiles,           \* rows of public.profiles
    \* history
    sessionCompletions, \* passes since the current lesson was loaded
    \* the evaluator on its own
    evOutput, evExpected, evVerdict,
    \* the badge table of the store
    user_badges,        \* rows of public.user_badges
    grants,             \* inserts into user_badges asked for so far
    \* useState of Leaderboard (src/pages/Leaderboard.tsx), and what it reads
    leaderboard,        \* the ranked rows
    userStats,          \* null (here {}) or {the statistics}
    progressData,       \* the store's answer to fetchUserStats' select
    locale              \* the browser's default locale

pageVars == <<lessons, currentLesson, code, output, showHints, isRunning,
              selectedLanguage, loading, attempts>>
asyncVars == <<fetches, nFetches, timers, saves>>
storeVars == <<user_progress, profiles>>
evalVars == <<evOutput, evExpected, evVerdict>>
badgeVars == <<user_badges, grants>>
boardVars == <<leaderboard, userStats, progressData, locale>>
vars == <<pageVars, asyncVars, storeVars, sessionCompletions, evalVars,
          badgeVars, boardVars>>

\* A lesson object held by the page: the row's id and the fetch that created
\* the object (two fetches of one row give two objects, and React compares
\* state by Object.is).
LessonObject(id, gen) == [id |-> id, gen |-> gen]

\* A row of public.profiles as the signup trigger inserts it.
NewProfile ==
    [user_id |-> User, total_lessons_completed |-> 0, total_points |-> 0,
     current_streak |-> 0, best_streak |-> 0]

EvalIdle == evOutput = <<>> /\ evExpected = <<>> /\ evVerdict = "none"

\* No row in public.user_badges: the migration creates the table empty.
BadgesIdle == user_badges = {} /\ grants = 0

\* The Leaderboard page not mounted: useState's initial values.
BoardIdle ==
    /\ leaderboard = <<>>
    /\ userStats = {}
    /\ progressData = <<>>
    /\ locale = "en-US"

\* The page right after mount: the state of useState's initial values, with
\* the first effect's fetchLessons call under way.  The user's profile
\* exists (the signup trigger) or, for an account older than the trigger,
\* does not.
Init ==
    /\ lessons = <<>>
    /\ currentLesson = Null
    /\ code = {}
    /\ output = <<>>
    /\ showHints = {}
    /\ isRunning = FALSE
    /\ selectedLanguage = "python"
    /\ loading = TRUE
    /\ attempts = 0
    /\ fetches = {[language |-> "python", noLesson |-> TRUE, gen |-> 1]}
    /\ nFetches = 1
    /\ timers = <<>>
    /\ saves = <<>>
    /\ user_progress = {}
    /\ profiles \in {{}, {NewProfile}}
    /\ sessionCompletions = 0
    /\ EvalIdle
    /\ BadgesIdle
    /\ BoardIdle

\* --------------------------------------------------------------- the page

\* useEffect(..., [currentLesson]) after setCurrentLesson(obj).
lessonEffect(obj) ==
    /\ currentLesson' = obj
    /\ code' = Lesson(obj.id).starter_code
    /\ output' = <<>>
    /\ showHints' = {}
    /\ attempts' = 0
    /\ sessionCompletions' = 0

\* setCurrentLesson(obj): React re-renders, and runs the effect, only when
\* obj is another object than the current one.
setCurrentLesson(obj) ==
    IF obj = currentLesson
    THEN UNCHANGED <<currentLesson, code, output, showHints, attempts,
                     sessionCompletions>>
    ELSE lessonEffect(obj)

\* <Select onValueChange={setSelectedLanguage}>, then useEffect(...,
\* [selectedLanguage]) calls fetchLessons, which captures this render's
\* currentLesson.
selectLanguage(l) ==
    /\ ~loading
    /\ l # selectedLanguage
    /\ nFetches < MaxFetches
    /\ selectedLanguage' = l
    /\ nFetches' = nFetches + 1
    /\ fetches' = fetches \cup
          {[language |-> l, noLesson |-> (currentLesson = Null), gen |-> nFetches + 1]}
    /\ UNCHANGED <<lessons, currentLesson, code, output, showHints, isRunning,
                   loading, attempts, timers, saves, storeVars,
                   sessionCompletions, evalVars, badgeVars, boardVars>>

\* fetchLessons after its await, the store having answered with the rows.
fetchLessons(f) ==
    /\ f \in fetches
    /\ fetches' = fetches \ {f}
    /\ LET data == [i \in DOMAIN listLessons(f.language) |->
                        LessonObject(listLessons(f.language)[i], f.gen)]
       IN  /\ lessons' = data
           /\ IF Len(data) > 0 /\ f.noLesson
              THEN lessonEffect(data[1])
              ELSE UNCHANGED <<currentLesson, code, output, showHints, attempts,
                               sessionCompletions>>
    /\ loading' = FALSE
    /\ UNCHANGED <<isRunning, selectedLanguage, nFetches, timers, saves,
                   storeVars, evalVars, badgeVars, boardVars>>

\* fetchLessons after its await, the store having answered with an error.
fetchLessonsError(f) ==
    /\ f \in fetches
    /\ fetches' = fetches \ {f}
    /\ loading' = FALSE
    /\ UNCHANGED <<lessons, currentLesson, code, output, showHints, isRunning,
                   selectedLanguage, attempts, nFetches, timers, saves, storeVars,
                   sessionCompletions, evalVars, badgeVars, boardVars>>

\* The texts typed into the editor, by the substrings runCode looks for.
CodeInputs == {{}, {Range16}}

\* <CodeEditor onChange={(value) => setCode(value || '')}>
setCode(c) ==
    /\ ~loading
    /\ c # code
    /\ code' = c
    /\ UNCHANGED <<lessons, currentLesson, output, showHints, isRunning,
                   selectedLanguage, loading, attempts, asyncVars, storeVars,
                   sessionCompletions, evalVars, badgeVars, boardVars>>

RunTimer(lesson, c) ==
    [kind |-> "run", lesson |-> lesson, code |-> c, lessons |-> <<>>]
AdvanceTimer(lesson, ls) ==
    [kind |-> "advance", lesson |-> lesson, code |-> {}, lessons |-> ls]

\* runCode up to its setTimeout: the callback keeps this render's
\* currentLesson and code.
runCode ==
    /\ ~loading
    /\ ~isRunning
    /\ isRunning' = TRUE
    /\ timers' = Append(timers, RunTimer(currentLesson, code))
    /\ UNCHANGED <<lessons, currentLesson, code, output, showHints,
                   selectedLanguage, loading, attempts, fetches,
                   nFetches, saves, storeVars, sessionCompletions, evalVars, badgeVars, boardVars>>

SixLines == OneToFive \o <<"\n", "6">>
InvalidCode ==
    <<"E", "r", "r", "o", "r", ":", " ", "I", "n", "v", "a", "l", "i", "d", " ",
      "c", "o", "d", "e", " ", "o", "r", " ", "s", "y", "n", "t", "a", "x", " ",
      "e", "r", "r", "o", "r">>
ExecutedPrefix ==
    <<"C", "o", "d", "e", " ", "e", "x", "e", "c", "u", "t", "e", "d", " ",
      "s", "u", "c", "c", "e", "s", "s", "f", "u", "l", "l", "y", "!", "\n">>

\* The output runCode's callback sets for a lesson row and a code.
simulate(row, c) ==
    LET expectedOutput == trim(row.expected_output)
    IN  IF row.language = "python" /\ row.title = "Off-by-One Error in Loop"
        THEN IF Range16 \in c THEN expectedOutput
             ELSE IF Range17 \in c THEN SixLines
             ELSE InvalidCode
        ELSE ExecutedPrefix \o expectedOutput

\* The callback of runCode's setTimeout.  Timers of one delay run in the
\* order they were set.
runCodeTimeout ==
    /\ timers # <<>>
    /\ Head(timers).kind = "run"
    /\ timers' = Tail(timers)
    /\ output' = IF Head(timers).lesson # Null
                 THEN simulate(Lesson(Head(timers).lesson.id), Head(timers).code)
                 ELSE output
    /\ isRunning' = FALSE
    /\ UNCHANGED <<lessons, currentLesson, code, showHints, selectedLanguage,
                   loading, attempts, fetches, nFetches, saves,
                   storeVars, sessionCompletions, evalVars, badgeVars, boardVars>>


\* Every submission taken for correct.
evaluateAlwaysPass(expected_output, submitted) == "Pass"

\* An output that is empty once trimmed refused whatever is expected.
evaluateNonEmpty(expected_output, submitted) ==
    IF trim(submitted) # <<>> /\ trim(submitted) = trim(expected_output)
    THEN "Pass"
    ELSE "Fail"

\* actualOutput === expectedOutput, both trimmed.
evaluate(expected_output, submitted) ==
    IF trim(submitted) = trim(expected_output) THEN "Pass" ELSE "Fail"

\* The counter set from a state update applied twice.
newAttemptsTwice(n) == n + 2

\* const newAttempts = attempts + 1
newAttemptsOf(n) == n + 1

\* The hint unlocked on every failure from the second on.
autoHintFromSecond(newAttempts, row) == newAttempts >= 2 /\ row.hints > 0

\* newAttempts === 2 && currentLesson.hints && currentLesson.hints.length > 0
autoHint(newAttempts, row) == newAttempts = 2 /\ row.hints > 0

\* The record written with attempts: 1, as the page's earlier version did.
saveProgressFirstAttempt(attemptCount) ==
    [lesson_id |-> currentLesson.id,
     hints_used |-> Cardinality(showHints),
     attempts |-> 1,
     pc |-> "insert",
     profile |-> {},
     error |-> "none"]

\* saveProgress(attemptCount) up to its first await: the call keeps this
\* render's currentLesson and showHints, and has sent the insert.  error is
\* what the call reports (its catch block, its returned promise): no store
\* call throws, the answers' error fields are not read, so it stays "none".
saveProgress(attemptCount) ==
    [lesson_id |-> currentLesson.id,
     hints_used |-> Cardinality(showHints),
     attempts |-> attemptCount,
     pc |-> "insert",
     profile |-> {},
     error |-> "none"]

\* The Check Solution button, enabled unless (!output || isRunning).
checkSolution ==
    /\ ~loading
    /\ output # <<>>
    /\ ~isRunning
    /\ currentLesson # Null
    /\ attempts < MaxAttempts
    /\ LET row == Lesson(currentLesson.id)
           newAttempts == newAttemptsOf(attempts)
       IN  /\ attempts' = newAttempts
           /\ IF evaluate(row.expected_output, output) = "Pass"
              THEN /\ Len(saves) < MaxCompletions
                   /\ saves' = Append(saves, saveProgress(newAttempts))
                   /\ timers' = Append(timers, AdvanceTimer(currentLesson, lessons))
                   /\ sessionCompletions' = sessionCompletions + 1
                   /\ UNCHANGED showHints
              ELSE /\ showHints' = IF autoHint(newAttempts, row)
                                   THEN showHints \cup {0}
                                   ELSE showHints
                   /\ UNCHANGED <<saves, timers, sessionCompletions>>
    /\ UNCHANGED <<lessons, currentLesson, code, output, isRunning,
                   selectedLanguage, loading, fetches, nFetches, storeVars,
                   evalVars, badgeVars, boardVars>>

\* lessons.findIndex(l => l.id === id)
findIndex(ls, id) ==
    IF \E i \in 1..Len(ls) : ls[i].id = id
    THEN (CHOOSE i \in 1..Len(ls) :
            ls[i].id = id /\ \A j \in 1..(i - 1) : ls[j].id # id) - 1
    ELSE -1

\* The callback of the setTimeout of a passed checkSolution: it keeps that
\* render's lessons and currentLesson.
nextLessonTimeout ==
    /\ timers # <<>>
    /\ Head(timers).kind = "advance"
    /\ timers' = Tail(timers)
    /\ LET ls == Head(timers).lessons
           currentIndex == findIndex(ls, Head(timers).lesson.id)
       IN  IF currentIndex < Len(ls) - 1
           THEN setCurrentLesson(ls[currentIndex + 2])
           ELSE UNCHANGED <<currentLesson, code, output, showHints, attempts,
                            sessionCompletions>>
    /\ UNCHANGED <<lessons, isRunning, selectedLanguage, loading, fetches,
                   nFetches, saves, storeVars, evalVars, badgeVars, boardVars>>

\* showHint clearing the attempts as resetCode does.
showHintClearingAttempts(index) ==
    /\ ~loading
    /\ currentLesson # Null
    /\ index \in 0..(Lesson(currentLesson.id).hints - 1)
    /\ index \notin showHints
    /\ showHints' = showHints \cup {index}
    /\ attempts' = 0
    /\ UNCHANGED <<lessons, currentLesson, code, output, isRunning,
                   selectedLanguage, loading, asyncVars, storeVars,
                   sessionCompletions, evalVars, badgeVars, boardVars>>

\* showHint starting from an empty array: the other hints are hidden again.
showHintOnly(index) ==
    /\ ~loading
    /\ currentLesson # Null
    /\ index \in 0..(Lesson(currentLesson.id).hints - 1)
    /\ index \notin showHints
    /\ showHints' = {index}
    /\ UNCHANGED <<lessons, currentLesson, code, output, isRunning,
                   selectedLanguage, loading, attempts, asyncVars, storeVars,
                   sessionCompletions, evalVars, badgeVars, boardVars>>

\* The Show Hint button of hint index, rendered while !showHints[index].
showHint(index) ==
    /\ ~loading
    /\ currentLesson # Null
    /\ index \in 0..(Lesson(currentLesson.id).hints - 1)
    /\ index \notin showHints
    /\ showHints' = showHints \cup {index}
    /\ UNCHANGED <<lessons, currentLesson, code, output, isRunning,
                   selectedLanguage, loading, attempts, asyncVars, storeVars,
                   sessionCompletions, evalVars, badgeVars, boardVars>>

\* The reset leaving the revealed hints as they are.
resetCodeKeepingHints ==
    /\ ~loading
    /\ currentLesson # Null
    /\ code' = Lesson(currentLesson.id).starter_code
    /\ output' = <<>>
    /\ attempts' = 0
    /\ UNCHANGED <<lessons, currentLesson, showHints, isRunning,
                   selectedLanguage, loading, asyncVars, storeVars,
                   sessionCompletions, evalVars, badgeVars, boardVars>>

\* The Reset button.
resetCode ==
    /\ ~loading
    /\ currentLesson # Null
    /\ code' = Lesson(currentLesson.id).starter_code
    /\ output' = <<>>
    /\ attempts' = 0
    /\ showHints' = {}
    /\ UNCHANGED <<lessons, currentLesson, isRunning, selectedLanguage, loading,
                   asyncVars, storeVars, sessionCompletions, evalVars, badgeVars, boardVars>>

\* -------------------------------------------------------------- the store

\* The insert into a table without the UNIQUE constraint.
insertProgressNoUnique(table, row) == table \cup {row}

\* INSERT into public.user_progress under UNIQUE(user_id, lesson_id): a row
\* whose pair is already there is refused, and the table is left as it was.
insertProgress(table, row) ==
    IF \E r \in table : r.user_id = row.user_id /\ r.lesson_id = row.lesson_id
    THEN table
    ELSE table \cup {row}

\* await supabase.from('user_progress').insert({...}); the answer's error is
\* not looked at.
saveProgressInsert(i) ==
    /\ i \in DOMAIN saves
    /\ saves[i].pc = "insert"
    /\ user_progress' = insertProgress(user_progress,
          [user_id |-> User, lesson_id |-> saves[i].lesson_id,
           hints_used |-> saves[i].hints_used, attempts |-> saves[i].attempts])
    /\ saves' = [saves EXCEPT ![i].pc = "select", ![i].hints_used = 0,
                               ![i].attempts = 0]
    /\ UNCHANGED <<pageVars, fetches, nFetches, timers, profiles,
                   sessionCompletions, evalVars, badgeVars, boardVars>>

\* .select('total_lessons_completed, total_points').eq('user_id', user.id)
\* .single(): the row when there is exactly one, else null (here {}).
selectSingle(table, user_id) ==
    LET rows == {p \in table : p.user_id = user_id}
    IN  IF Cardinality(rows) = 1
        THEN {[total_lessons_completed |-> p.total_lessons_completed,
               total_points |-> p.total_points] : p \in rows}
        ELSE {}

\* const { data: profile } = await ...; if (profile) goes on to the update.
saveProgressSelect(i) ==
    /\ i \in DOMAIN saves
    /\ saves[i].pc = "select"
    /\ LET profile == selectSingle(profiles, User)
       IN  saves' = [saves EXCEPT ![i].profile = profile,
                                  ![i].pc = IF profile # {} THEN "update" ELSE "done"]
    /\ UNCHANGED <<pageVars, fetches, nFetches, timers, storeVars,
                   sessionCompletions, evalVars, badgeVars, boardVars>>

\* The values .update({...}) writes, from the profile read and the lesson.
updatedStats(profile, row) ==
    [total_lessons_completed |-> profile.total_lessons_completed + 1,
     total_points |-> profile.total_points + row.points]

\* The update also counting the streak, the best streak left behind.
updateProfileAndStreak(table, user_id, stats) ==
    {IF p.user_id = user_id
     THEN [p EXCEPT !.total_lessons_completed = stats.total_lessons_completed,
                    !.total_points = stats.total_points,
                    !.current_streak = p.current_streak + 1]
     ELSE p : p \in table}

\* UPDATE public.profiles SET ... WHERE user_id = user_id
updateProfile(table, user_id, stats) ==
    {IF p.user_id = user_id
     THEN [p EXCEPT !.total_lessons_completed = stats.total_lessons_completed,
                    !.total_points = stats.total_points]
     ELSE p : p \in table}

\* await supabase.from('profiles').update({...}).eq('user_id', user.id)
saveProgressUpdate(i) ==
    /\ i \in DOMAIN saves
    /\ saves[i].pc = "update"
    /\ LET profile == CHOOSE p \in saves[i].profile : TRUE
       IN  profiles' = updateProfile(profiles, User,
                          updatedStats(profile, Lesson(saves[i].lesson_id)))
    /\ saves' = [saves EXCEPT ![i].pc = "done", ![i].profile = {}]
    /\ UNCHANGED <<pageVars, fetches, nFetches, timers, user_progress,
                   sessionCompletions, evalVars, badgeVars, boardVars>>

\* ----------------------------------------------------------- specification

Next ==
    \/ \E l \in LanguageInputs : selectLanguage(l)
    \/ \E f \in fetches : fetchLessons(f)
    \/ \E f \in fetches : fetchLessonsError(f)
    \/ \E c \in CodeInputs : setCode(c)
    \/ runCode
    \/ runCodeTimeout
    \/ checkSolution
    \/ nextLessonTimeout
    \/ \E index \in 0..MaxHintIndex : showHint(index)
    \/ resetCode
    \/ \E i \in 1..MaxCompletions : saveProgressInsert(i)
    \/ \E i \in 1..MaxCompletions : saveProgressSelect(i)
    \/ \E i \in 1..MaxCompletions : saveProgressUpdate(i)

Spec == Init /\ [][Next]_vars

\* The evaluator alone, on every pair of strings of at most MaxLen characters.
EvalChars == {"a", " ", "\n"}

Strings(n) == UNION {[1..k -> EvalChars] : k \in 0..n}

InitEval ==
    /\ lessons = <<>>
    /\ currentLesson = Null
    /\ code = {}
    /\ output = <<>>
    /\ showHints = {}
    /\ isRunning = FALSE
    /\ selectedLanguage = "python"
    /\ loading = TRUE
    /\ attempts = 0
    /\ fetches = {}
    /\ nFetches = 0
    /\ timers = <<>>
    /\ saves = <<>>
    /\ user_progress = {}
    /\ profiles = {}
    /\ sessionCompletions = 0
    /\ evOutput \in Strings(MaxLen)
    /\ evExpected \in Strings(MaxLen)
    /\ evVerdict = "none"
    /\ BadgesIdle
    /\ BoardIdle

evaluateStep ==
    /\ evVerdict = "none"
    /\ evVerdict' = evaluate(evExpected, evOutput)
    /\ UNCHANGED <<pageVars, asyncVars, storeVars, sessionCompletions, evOutput,
                   evExpected, badgeVars, boardVars>>

NextEval == evaluateStep

SpecEval == InitEval /\ [][NextEval]_vars


\* The Challenge page not mounted, and nothing in the tables it writes.
ChallengeIdle ==
    /\ lessons = <<>>
    /\ currentLesson = Null
    /\ code = {}
    /\ output = <<>>
    /\ showHints = {}
    /\ isRunning = FALSE
    /\ selectedLanguage = "python"
    /\ loading = TRUE
    /\ attempts = 0
    /\ fetches = {}
    /\ nFetches = 0
    /\ timers = <<>>
    /\ saves = <<>>
    /\ user_progress = {}
    /\ sessionCompletions = 0

\* ------------------------------------------------------- the badge table

\* auth.users, two of them.
Users == {"u1", "u2"}

\* The insert into a table without the UNIQUE constraint.
insertUserBadgeNoUnique(table, row) == table \cup {row}

\* INSERT into public.user_badges under UNIQUE(user_id, badge_id).
insertUserBadge(table, row) ==
    IF \E r \in table : r.user_id = row.user_id /\ r.badge_id = row.badge_id
    THEN table
    ELSE table \cup {row}

\* An insert of (user, badge) into user_badges, earned_at taking now().  No
\* page of the repository sends one; the policy "System can insert user
\* badges" admits it from any client.
grantBadge(u, b) ==
    /\ grants < MaxGrants
    /\ grants' = grants + 1
    /\ user_badges' = insertUserBadge(user_badges,
          [user_id |-> u, badge_id |-> b.id, earned_at |-> grants + 1])
    /\ UNCHANGED <<pageVars, asyncVars, storeVars, sessionCompletions, evalVars,
                   boardVars>>

InitBadges ==
    /\ ChallengeIdle
    /\ profiles = {}
    /\ EvalIdle
    /\ BadgesIdle
    /\ BoardIdle

NextBadges == \E u \in Users : \E b \in DbBadges : grantBadge(u, b)

SpecBadges == InitBadges /\ [][NextBadges]_vars

\* ------------------------------------------------------- the leaderboard

Min(a, b) == IF a <= b THEN a ELSE b
Max(a, b) == IF a >= b THEN a ELSE b

\* .limit(50)
LeaderboardLimit == 50

\* A table of n profiles, numbered in the order of their creation.
ProfileTable(n, k, m) ==
    {[user_id |-> i, username |-> i, total_points |-> ((i * k) % m) * 10,
      total_lessons_completed |-> (i * k) % m, current_streak |-> 0,
      created_at |-> i] : i \in 1..n}

\* The order in which the store comes upon the rows of a table: the order
\* of creation, or its reverse (an UPDATE writes a row's new version
\* elsewhere in the heap).
ScanOrders == {"created", "reverse"}

scanRows(table, scan) ==
    LET n == Cardinality(table)
        at(c) == CHOOSE p \in table : p.created_at = c
    IN  [i \in 1..n |-> IF scan = "created" THEN at(i) ELSE at(n + 1 - i)]

\* The ordering by ascending total_points.
RECURSIVE orderByPointsAscending(_)
orderByPointsAscending(rows) ==
    IF rows = <<>> THEN <<>>
    ELSE LET low == CHOOSE i \in 1..Len(rows) :
                      /\ \A j \in 1..Len(rows) :
                            rows[j].total_points >= rows[i].total_points
                      /\ \A j \in 1..(i - 1) :
                            rows[j].total_points > rows[i].total_points
         IN  <<rows[low]>> \o orderByPointsAscending(
                 SubSeq(rows, 1, low - 1) \o SubSeq(rows, low + 1, Len(rows)))

\* .order('total_points', { ascending: false }): rows of equal points stay
\* in the order the store came upon them.
RECURSIVE orderByPoints(_)
orderByPoints(rows) ==
    IF rows = <<>> THEN <<>>
    ELSE LET top == CHOOSE i \in 1..Len(rows) :
                      /\ \A j \in 1..Len(rows) :
                            rows[j].total_points <= rows[i].total_points
                      /\ \A j \in 1..(i - 1) :
                            rows[j].total_points < rows[i].total_points
         IN  <<rows[top]>> \o orderByPoints(
                 SubSeq(rows, 1, top - 1) \o SubSeq(rows, top + 1, Len(rows)))

limit(rows, count) == SubSeq(rows, 1, Min(Len(rows), count))

\* rank: index + 1, index being the 0-based position in data.
rankOf(index) == index + 1

\* data.map((profile, index) => ({ ...profile, rank: index + 1 })), over
\* the selected columns.
rankedData(data) ==
    [i \in DOMAIN data |->
        [user_id |-> data[i].user_id, username |-> data[i].username,
         total_points |-> data[i].total_points,
         total_lessons_completed |-> data[i].total_lessons_completed,
         current_streak |-> data[i].current_streak,
         rank |-> rankOf(i - 1)]]

\* fetchLeaderboard, the store having answered: if (data) setLeaderboard(...).
fetchLeaderboard(scan) ==
    /\ LET data == limit(orderByPoints(scanRows(profiles, scan)), LeaderboardLimit)
       IN  leaderboard' = rankedData(data)
    /\ UNCHANGED <<pageVars, asyncVars, storeVars, sessionCompletions, evalVars,
                   badgeVars, userStats, progressData, locale>>

InitBoard ==
    /\ ChallengeIdle
    /\ \E n \in 0..MaxProfiles : \E k \in 1..MaxStep : \E m \in 1..MaxModulus :
          profiles = ProfileTable(n, k, m)
    /\ EvalIdle
    /\ BadgesIdle
    /\ BoardIdle

NextBoard == \E scan \in ScanOrders : fetchLeaderboard(scan)

SpecBoard == InitBoard /\ [][NextBoard]_vars

\* ----------------------------------------------------- the user statistics

LanguageList == <<"python", "javascript", "java", "cpp", "go", "rust">>
DifficultyList == <<"easy", "medium", "hard", "expert">>

\* The calendar days tried, local time: the 1st to the 3rd of January to
\* March 2026, numbered 0 to 8 in the order of time.
Day(index) == [y |-> 2026, m |-> (index \div 3) + 1, d |-> (index % 3) + 1]

\* The store's answer to the select of fetchUserStats: n rows of the user,
\* each joined with its lesson's language and difficulty.
ProgressRows(n, start, step) ==
    [i \in 1..n |->
        [lesson_id |-> i,
         lessons |-> [language |-> LanguageList[((i * step) % 6) + 1],
                      difficulty |-> DifficultyList[((i + start) % 4) + 1]],
         completed_at |-> Day((start + i * step) % 9),
         attempts |-> 1 + (i % 3),
         hints_used |-> (i * step) % 3]]

Locales == {"en-US", "en-GB"}

\* new Date(completed_at).toLocaleDateString(): the text M/D/YYYY in en-US,
\* DD/MM/YYYY in en-GB, here its three numbers in the order written.
toLocaleDateString(day, loc) ==
    IF loc = "en-US" THEN <<day.m, day.d, day.y>> ELSE <<day.d, day.m, day.y>>

\* new Date(text).getTime() of a text a/b/YYYY: Date.parse reads it as month
\* a, day b, whatever the locale that wrote it.  The time is counted in
\* days of 31-day months (no text tried has a first number above 12).
getTime(text) == (text[3] * 12 + text[1]) * 31 + text[2]

\* counts[key] = 1, whatever was counted before.
incrementReset(counts, key) ==
    IF \E i \in DOMAIN counts : counts[i].key = key
    THEN [i \in DOMAIN counts |->
            IF counts[i].key = key THEN [key |-> key, count |-> 1] ELSE counts[i]]
    ELSE Append(counts, [key |-> key, count |-> 1])

\* counts[key] = (counts[key] || 0) + 1.  A Record<string, number> is the
\* sequence of its entries, in the order Object.entries lists them (that of
\* the keys' first assignment).
increment(counts, key) ==
    IF \E i \in DOMAIN counts : counts[i].key = key
    THEN [i \in DOMAIN counts |->
            IF counts[i].key = key
            THEN [key |-> key, count |-> counts[i].count + 1]
            ELSE counts[i]]
    ELSE Append(counts, [key |-> key, count |-> 1])

\* progressData.forEach(...) for one of the three records.
RECURSIVE tally(_, _)
tally(counts, keys) ==
    IF keys = <<>> THEN counts
    ELSE tally(increment(counts, Head(keys)), Tail(keys))

\* s.charAt(0).toUpperCase() + s.slice(1), on the values of the two enums.
capitalize(s) ==
    CASE s = "python" -> "Python"
      [] s = "javascript" -> "Javascript"
      [] s = "java" -> "Java"
      [] s = "cpp" -> "Cpp"
      [] s = "go" -> "Go"
      [] s = "rust" -> "Rust"
      [] s = "easy" -> "Easy"
      [] s = "medium" -> "Medium"
      [] s = "hard" -> "Hard"
      [] s = "expert" -> "Expert"

\* difficultyColors[difficulty] || '#6366f1'
difficultyColor(difficulty) ==
    CASE difficulty = "easy" -> "#10b981"
      [] difficulty = "medium" -> "#f59e0b"
      [] difficulty = "hard" -> "#f97316"
      [] difficulty = "expert" -> "#ef4444"
      [] OTHER -> "#6366f1"

\* .sort((a, b) => new Date(a.date).getTime() - new Date(b.date).getTime()):
\* ascending by the time read back from the text; the sort is stable.
RECURSIVE sortByTime(_)
sortByTime(entries) ==
    IF entries = <<>> THEN <<>>
    ELSE LET first == CHOOSE i \in 1..Len(entries) :
                        /\ \A j \in 1..Len(entries) :
                              getTime(entries[i].date) <= getTime(entries[j].date)
                        /\ \A j \in 1..(i - 1) :
                              getTime(entries[j].date) > getTime(entries[i].date)
         IN  <<entries[first]>> \o sortByTime(
                 SubSeq(entries, 1, first - 1)
                 \o SubSeq(entries, first + 1, Len(entries)))

\* .slice(-7)
sliceLast7(entries) ==
    SubSeq(entries, Max(1, Len(entries) - 6), Len(entries))

RECURSIVE sum(_)
sum(numbers) == IF numbers = <<>> THEN 0 ELSE Head(numbers) + sum(Tail(numbers))

\* parseFloat((total / count).toFixed(1)), '0' for no row: the average in
\* tenths, a half rounded up.
average(total, count) ==
    IF count > 0 THEN (20 * total + count) \div (2 * count) ELSE 0

\* if (progressData) { ... setUserStats({...}) }.  The values of
\* accuracyStats are in tenths.
computeStats(data, loc) ==
    LET languageCounts == tally(<<>>, [i \in DOMAIN data |-> data[i].lessons.language])
        difficultyCounts ==
            tally(<<>>, [i \in DOMAIN data |-> data[i].lessons.difficulty])
        dateMap == tally(<<>>, [i \in DOMAIN data |->
                                   toLocaleDateString(data[i].completed_at, loc)])
        totalAttempts == sum([i \in DOMAIN data |-> data[i].attempts])
        totalHints == sum([i \in DOMAIN data |-> data[i].hints_used])
    IN  [completedByLanguage |->
            [i \in DOMAIN languageCounts |->
                [language |-> capitalize(languageCounts[i].key),
                 count |-> languageCounts[i].count]],
         completedByDifficulty |->
            [i \in DOMAIN difficultyCounts |->
                [difficulty |-> capitalize(difficultyCounts[i].key),
                 count |-> difficultyCounts[i].count,
                 color |-> difficultyColor(difficultyCounts[i].key)]],
         progressOverTime |->
            sliceLast7(sortByTime(
                [i \in DOMAIN dateMap |->
                    [date |-> dateMap[i].key, lessons |-> dateMap[i].count]])),
         accuracyStats |->
            <<[metric |-> "Avg Attempts",
               value |-> average(totalAttempts, Len(data))],
              [metric |-> "Avg Hints", value |-> average(totalHints, Len(data))],
              [metric |-> "Total Solved", value |-> 10 * Len(data)]>>]

\* fetchUserStats, the store having answered.
fetchUserStats ==
    /\ userStats' = {computeStats(progressData, locale)}
    /\ UNCHANGED <<pageVars, asyncVars, storeVars, sessionCompletions, evalVars,
                   badgeVars, leaderboard, progressData, locale>>

InitStats ==
    /\ ChallengeIdle
    /\ profiles = {}
    /\ EvalIdle
    /\ BadgesIdle
    /\ leaderboard = <<>>
    /\ userStats = {}
    /\ \E n \in 0..MaxRecords : \E start \in 0..8 : \E step \in 0..MaxDayStep :
          progressData = ProgressRows(n, start, step)
    /\ locale \in Locales

NextStats == fetchUserStats

SpecStats == InitStats /\ [][NextStats]_vars

\* ------------------------------------------------------------------ claims

\* The profile row of the signed-in user, where there is one.
HasProfile == \E p \in profiles : p.user_id = User
Profile == CHOOSE p \in profiles : p.user_id = User

\* Step i of saves is the store applying that call's profile update.
UpdateStep(i) ==
    /\ i \in DOMAIN saves
    /\ saves[i].pc = "update"
    /\ saves'[i].pc = "done"

\* t is s without its leading and trailing white space: s is t between two
\* runs of white space, and t neither starts nor ends with white space.
IsTrimmed(s, t) ==
    /\ t = <<>> \/ (t[1] \notin WhiteSpace /\ t[Len(t)] \notin WhiteSpace)
    /\ \E i \in 0..Len(s) :
          /\ i + Len(t) <= Len(s)
          /\ \A k \in 1..Len(t) : s[i + k] = t[k]
          /\ \A k \in 1..i : s[k] \in WhiteSpace
          /\ \A k \in (i + Len(t) + 1)..Len(s) : s[k] \in WhiteSpace

\* C1: the verdict is Pass exactly when the submitted output and the
\* expected output, each without its leading and trailing white space, are
\* the same string; it is Fail otherwise.
C1_PassIffTrimmedEqual ==
    evVerdict # "none" =>
        /\ evVerdict \in {"Pass", "Fail"}
        /\ evVerdict = "Pass" <=>
              \E t \in Strings(MaxLen) :
                  IsTrimmed(evOutput, t) /\ IsTrimmed(evExpected, t)

\* C1 witness: a Pass of two strings that differ by white space at both ends.
C1_Witness ==
    /\ evVerdict = "Pass"
    /\ evOutput = <<"a", "\n">>
    /\ evExpected = <<" ", "a">>

\* C2: a session (the time one lesson object is the current lesson) emits at
\* most one completion: after a pass no further Check Solution is evaluated.
C2_OneCompletionPerSession == sessionCompletions <= 1

\* C3: the store's profile update of a completion raises total_points by
\* the lesson's points and total_lessons_completed by 1.
C3_CompletionAddsPointsAndOne ==
    [][\A i \in 1..MaxCompletions :
          UpdateStep(i) =>
              \E p \in profiles : \E q \in profiles' :
                  /\ p.user_id = User /\ q.user_id = User
                  /\ q.total_points = p.total_points + Lesson(saves[i].lesson_id).points
                  /\ q.total_lessons_completed = p.total_lessons_completed + 1]_vars

RECURSIVE PointsOf(_)
PointsOf(ss) ==
    IF ss = <<>> THEN 0 ELSE Lesson(Head(ss).lesson_id).points + PointsOf(Tail(ss))

\* C4: no update is lost: once every completion of the user has been scored,
\* the profile counts all of them and holds the sum of their points.
C4_NoLostUpdate ==
    (HasProfile /\ \A i \in DOMAIN saves : saves[i].pc = "done") =>
        /\ Profile.total_lessons_completed = Len(saves)
        /\ Profile.total_points = PointsOf(saves)

\* C5: a Check Solution reveals hint 0 exactly when it is the 2nd attempt, it
\* emits no completion (it fails) and the lesson has a hint; any other Check
\* Solution leaves the revealed hints as they are.
C5_AutoHintOnSecondFailure ==
    [][checkSolution =>
          showHints' =
              IF /\ attempts' = 2
                 /\ Len(saves') = Len(saves)
                 /\ Lesson(currentLesson.id).hints >= 1
              THEN showHints \cup {0}
              ELSE showHints]_vars

\* C5 witness: two attempts made, none passed, and hint 0 shown.
C5_Witness ==
    /\ currentLesson # Null
    /\ attempts = 2
    /\ sessionCompletions = 0
    /\ showHints = {0}
    /\ saves = <<>>

\* C6: the attempts counter does not decrease, except to 0 by the reset
\* action or when another lesson object becomes the current lesson.
C6_AttemptsMonotone ==
    [][\/ attempts' >= attempts
       \/ /\ attempts' = 0
          /\ resetCode \/ currentLesson' # currentLesson]_vars

\* C6 witness: the counter back at 0 in a session that has passed, which
\* only the reset does.
C6_Witness ==
    /\ sessionCompletions >= 1
    /\ attempts = 0

\* C7: a Check Solution raises the attempts counter by exactly 1, whether it
\* emits a completion or not.
C7_AttemptsPlusOne ==
    [][checkSolution => attempts' = attempts + 1]_vars

\* C7 witness: a session of one passed and one failed attempt.
C7_Witness ==
    /\ attempts = 2
    /\ sessionCompletions = 1
    /\ output # <<>>
    /\ currentLesson # Null
    /\ evaluate(Lesson(currentLesson.id).expected_output, output) = "Fail"

\* C8: current_streak <= best_streak in every profile row.
C8_StreakAtMostBest ==
    \A p \in profiles : p.current_streak <= p.best_streak

\* C8 witness: a profile after a scoring update.
C8_Witness ==
    /\ HasProfile
    /\ Profile.total_lessons_completed >= 1
    /\ \E i \in DOMAIN saves : saves[i].pc = "done"

\* C9: the profile update of a completion sets current_streak to its old
\* value plus 1 (inside the window) or to 1 (outside it), and best_streak to
\* the larger of its old value and the new current_streak.
C9_StreakUpdated ==
    [][\A i \in 1..MaxCompletions :
          UpdateStep(i) =>
              \E p \in profiles : \E q \in profiles' :
                  /\ p.user_id = User /\ q.user_id = User
                  /\ q.current_streak \in {p.current_streak + 1, 1}
                  /\ q.best_streak = Max(p.best_streak, q.current_streak)]_vars

\* C10: user_progress holds at most one row for a user and a lesson.
C10_OneRecordPerUserLesson ==
    \A r1 \in user_progress : \A r2 \in user_progress :
        (r1.user_id = r2.user_id /\ r1.lesson_id = r2.lesson_id) => r1 = r2

\* C10 witness: two completions of one lesson have been inserted and one
\* row is there.
C10_Witness ==
    /\ Len(saves) = 2
    /\ saves[1].lesson_id = saves[2].lesson_id
    /\ saves[1].pc # "insert" /\ saves[2].pc # "insert"
    /\ Cardinality(user_progress) = 1

\* Step i of saves is the store answering that call's insert.
InsertStep(i) ==
    /\ i \in DOMAIN saves
    /\ saves[i].pc = "insert"
    /\ saves'[i].pc = "select"

\* C11: when the store takes the record of a completion of a lesson the user
\* had already completed (an earlier completion's record is there), the row
\* of that user and lesson carries, afterwards, the attempts and the hints
\* used of the later completion.
C11_RecompletionReplacesRecord ==
    [][\A i \in 1..MaxCompletions :
          (/\ InsertStep(i)
           /\ \E j \in 1..(i - 1) :
                 saves[j].lesson_id = saves[i].lesson_id /\ saves[j].pc # "insert")
          => \E r \in user_progress' :
                 /\ r.user_id = User
                 /\ r.lesson_id = saves[i].lesson_id
                 /\ r.attempts = saves[i].attempts
                 /\ r.hints_used = saves[i].hints_used]_vars

\* The badge predicates that read the profile alone.
BadgeSatisfied(b, p) ==
    CASE b.badge_type = "first_debug" -> p.total_lessons_completed >= 1
      [] b.badge_type = "consecutive_solves" ->
            p.current_streak >= b.requirement_value
      [] OTHER -> FALSE

\* C12: once the scoring updates of the user's completions are done, every
\* badge whose predicate the profile satisfies is owned by the user; first
\* among them first_debug, as soon as total_lessons_completed >= 1.
C12_SatisfiedBadgesGranted ==
    (HasProfile /\ saves # <<>> /\ \A i \in DOMAIN saves : saves[i].pc = "done") =>
        \A b \in DbBadges :
            BadgeSatisfied(b, Profile) =>
                \E ub \in user_badges : ub.user_id = User /\ ub.badge_id = b.id

\* C19: a completion scored while the user has no profile row ends with the
\* error ProfileNotFound, the profile table is left as it was and the
\* completion's progress record stays.
C19_ProfileNotFound ==
    \A i \in DOMAIN saves :
        (saves[i].pc = "done" /\ ~HasProfile) =>
            /\ saves[i].error = "ProfileNotFound"
            /\ profiles = {}
            /\ \E r \in user_progress :
                  r.user_id = User /\ r.lesson_id = saves[i].lesson_id

\* The completions of the current session are the last sessionCompletions
\* calls of saveProgress; one is pending until its last store call is done.
PendingInSession ==
    \E i \in (Len(saves) - sessionCompletions + 1)..Len(saves) :
        saves[i].pc # "done"

\* C20: Check Solution is not triggered while the persistence and scoring of
\* an earlier submission of the same session are pending.
C20_OneSubmissionInFlight ==
    [][checkSolution => ~PendingInSession]_vars

\* C13: user_badges holds at most one row for a user and a badge, and a
\* grant asked for again, of a badge the user owns, adds no row.
C13_BadgeGrantsIdempotent ==
    [][/\ \A r1 \in user_badges' : \A r2 \in user_badges' :
              (r1.user_id = r2.user_id /\ r1.badge_id = r2.badge_id) => r1 = r2
       /\ \A u \in Users : \A b \in DbBadges :
              (/\ grantBadge(u, b)
               /\ \E r \in user_badges : r.user_id = u /\ r.badge_id = b.id)
              => user_badges' = user_badges]_vars

\* C13 witness: a badge was granted, asked for again, and one row is there.
C13_Witness ==
    /\ grants = 2
    /\ Cardinality(user_badges) = 1

\* The row of public.profiles a leaderboard entry was made from.
ProfileOf(entry) == CHOOSE p \in profiles : p.user_id = entry.user_id

Stats == CHOOSE st \in userStats : TRUE

\* The rows of progressData whose lesson has value v in column c.
RowsWith(c, v) == {i \in DOMAIN progressData : progressData[i].lessons[c] = v}

\* C16: the statistics list, for each language and for each difficulty with
\* at least one record of the user, one entry with the number of those
\* records, and no entry for a language or a difficulty without a record.
C16_CountsByLanguageAndDifficulty ==
    userStats # {} =>
        /\ \A l \in Languages :
              LET entries == {i \in DOMAIN Stats.completedByLanguage :
                                Stats.completedByLanguage[i].language = capitalize(l)}
              IN  IF RowsWith("language", l) = {} THEN entries = {}
                  ELSE /\ Cardinality(entries) = 1
                       /\ \A i \in entries :
                             Stats.completedByLanguage[i].count =
                                 Cardinality(RowsWith("language", l))
        /\ Len(Stats.completedByLanguage) =
              Cardinality({l \in Languages : RowsWith("language", l) # {}})
        /\ \A d \in {"easy", "medium", "hard", "expert"} :
              LET entries == {i \in DOMAIN Stats.completedByDifficulty :
                                Stats.completedByDifficulty[i].difficulty = capitalize(d)}
              IN  IF RowsWith("difficulty", d) = {} THEN entries = {}
                  ELSE /\ Cardinality(entries) = 1
                       /\ \A i \in entries :
                             Stats.completedByDifficulty[i].count =
                                 Cardinality(RowsWith("difficulty", d))
        /\ Len(Stats.completedByDifficulty) =
              Cardinality({d \in {"easy", "medium", "hard", "expert"} :
                              RowsWith("difficulty", d) # {}})

\* C16 witness: statistics with a language counted twice, another once, and
\* a difficulty left out.
C16_Witness ==
    /\ userStats # {}
    /\ \E i \in DOMAIN Stats.completedByLanguage :
          Stats.completedByLanguage[i].count = 2
    /\ Len(Stats.completedByLanguage) = 2
    /\ Len(Stats.completedByDifficulty) = 3

\* The calendar days of the user's records, and their place in time.
DaysPresent == {progressData[i].completed_at : i \in DOMAIN progressData}
Ordinal(day) == (day.y * 12 + day.m) * 31 + day.d
RecentDays ==
    {x \in DaysPresent :
        Cardinality({y \in DaysPresent : Ordinal(y) > Ordinal(x)}) < 7}

\* C17: the series has one entry for each of the 7 most recent days that
\* have a record (for each day when there are fewer), with that day's
\* number of records, the earlier day first.
C17_LastSevenDaysAscending ==
    userStats # {} =>
        /\ Len(Stats.progressOverTime) = Cardinality(RecentDays)
        /\ \A k \in DOMAIN Stats.progressOverTime :
              \E x \in RecentDays :
                  /\ Cardinality({z \in RecentDays : Ordinal(z) <= Ordinal(x)}) = k
                  /\ Stats.progressOverTime[k].date = toLocaleDateString(x, locale)
                  /\ Stats.progressOverTime[k].lessons =
                        Cardinality({i \in DOMAIN progressData :
                                        progressData[i].completed_at = x})

\* s between its leading and its trailing white space.
Core(s) == CHOOSE t \in Strings(Len(s)) : IsTrimmed(s, t)

\* The characters of s that are not white space, in their order.
Letters(s) == SelectSeq(s, LAMBDA c : c \in EvalChars \ WhiteSpace)

\* s and t differ in white space that is inside them, and in nothing else
\* but white space.
DifferInside(s, t) == Core(s) # Core(t) /\ Letters(s) = Letters(t)

\* C18: a white space character added to, or removed from, either end of
\* the submitted or of the expected output leaves the verdict as it is, and
\* of two outputs that differ in white space inside them at most one passes
\* against an expected output.
C18_WhitespaceAtEndsOnly ==
    evVerdict # "none" =>
        /\ \A w \in EvalChars \cap WhiteSpace :
              /\ evaluate(evExpected, <<w>> \o evOutput) = evVerdict
              /\ evaluate(evExpected, evOutput \o <<w>>) = evVerdict
              /\ evaluate(<<w>> \o evExpected, evOutput) = evVerdict
              /\ evaluate(evExpected \o <<w>>, evOutput) = evVerdict
        /\ (evOutput # <<>> /\ Head(evOutput) \in WhiteSpace)
              => evaluate(evExpected, Tail(evOutput)) = evVerdict
        /\ (evOutput # <<>> /\ evOutput[Len(evOutput)] \in WhiteSpace)
              => evaluate(evExpected, SubSeq(evOutput, 1, Len(evOutput) - 1))
                     = evVerdict
        /\ (evExpected # <<>> /\ Head(evExpected) \in WhiteSpace)
              => evaluate(Tail(evExpected), evOutput) = evVerdict
        /\ (evExpected # <<>> /\ evExpected[Len(evExpected)] \in WhiteSpace)
              => evaluate(SubSeq(evExpected, 1, Len(evExpected) - 1), evOutput)
                     = evVerdict
        /\ evVerdict = "Pass" =>
              \A other \in Strings(MaxLen) :
                  DifferInside(evOutput, other)
                  => evaluate(evExpected, other) = "Fail"

\* C18 witness: a Pass of an output with white space inside it, which has
\* a neighbour that differs from it in that white space only.
C18_Witness ==
    /\ evVerdict = "Pass"
    /\ evOutput = <<"a", " ", "a">>
    /\ evExpected = <<"a", " ", "a">>
    /\ DifferInside(evOutput, <<"a", "\n", "a">>)

\* The progress rows of the signed-in user.
UserRecords == {r \in user_progress : r.user_id = User}

\* C21: a completion whose store calls have finished without an error
\* reported has both effects or none: its lesson's progress record is there
\* exactly when the profile totals were updated for it (which, the select
\* having found the profile or not, they were or were not).
C21_NoSilentPartialUpdate ==
    \A i \in DOMAIN saves :
        (saves[i].pc = "done" /\ saves[i].error = "none") =>
            ((\E r \in UserRecords : r.lesson_id = saves[i].lesson_id)
             <=> HasProfile)

RECURSIVE PointsOfRecords(_)
PointsOfRecords(rows) ==
    IF rows = {} THEN 0
    ELSE LET r == CHOOSE x \in rows : TRUE
         IN  Lesson(r.lesson_id).points + PointsOfRecords(rows \ {r})

\* C27: once the completions made have been stored and scored, the
\* profile's total_lessons_completed is the number of the user's progress
\* records and total_points the sum of the points of their lessons.
C27_TotalsEqualRecords ==
    (HasProfile /\ \A i \in DOMAIN saves : saves[i].pc = "done") =>
        /\ Profile.total_lessons_completed = Cardinality(UserRecords)
        /\ Profile.total_points = PointsOfRecords(UserRecords)

\* C28: the callback of a Run Code started on a lesson delivers its output
\* only into the session it was started in: the lesson object it holds is
\* the current one.
C28_NoStaleRunOutput ==
    [][(runCodeTimeout /\ Head(timers).lesson # Null)
          => Head(timers).lesson = currentLesson]_vars

\* The id of the lesson that follows lesson id in its language, by
\* order_index; id itself for the last one.
Following(id) ==
    LET ids == listLessons(Lesson(id).language)
        k == CHOOSE i \in DOMAIN ids : ids[i] = id
    IN  IF k < Len(ids) THEN ids[k + 1] ELSE id

\* C29: with the lessons loaded and no fetch under way, the current lesson
\* is one of the list and of the selected language; and the callback that
\* follows a Pass moves from the current lesson to the one after it in
\* order_index, or stays on the last one.
C29_CurrentLessonInLoadedList ==
    [][/\ (fetches' = {} /\ ~loading' /\ currentLesson' # Null) =>
              /\ \E i \in DOMAIN lessons' : lessons'[i] = currentLesson'
              /\ Lesson(currentLesson'.id).language = selectedLanguage'
       /\ nextLessonTimeout => currentLesson'.id = Following(currentLesson.id)]_vars

\* C30: every completion is one of the Python lesson 'Off-by-One Error in
\* Loop'.
C30_OnlyOffByOneCompletable ==
    \A i \in DOMAIN saves :
        /\ Lesson(saves[i].lesson_id).language = "python"
        /\ Lesson(saves[i].lesson_id).title = "Off-by-One Error in Loop"

\* C22: a Check Solution of an output that is not the expected one starts
\* no store call and no advance, leaves the progress records, the profiles
\* and the badges as they are, and reveals at most hint 0.
C22_FailedSubmissionFrame ==
    [][(/\ checkSolution
        /\ trim(output) # trim(Lesson(currentLesson.id).expected_output))
       => /\ saves' = saves
          /\ timers' = timers
          /\ user_progress' = user_progress
          /\ profiles' = profiles
          /\ user_badges' = user_badges
          /\ sessionCompletions' = sessionCompletions
          /\ showHints' \in {showHints, showHints \cup {0}}]_vars

\* C22 witness: two failed attempts of a user with a profile: hint 0 shown,
\* no record, no point.
C22_Witness ==
    /\ attempts = 2
    /\ showHints = {0}
    /\ saves = <<>>
    /\ user_progress = {}
    /\ HasProfile
    /\ Profile.total_points = 0
    /\ Profile.total_lessons_completed = 0

\* C23: Show Hint of an index adds that index to the revealed hints and
\* leaves the attempts, the output, the current lesson, the completions of
\* the session and the other hints as they are.
C23_ManualHintFrame ==
    [][\A index \in 0..MaxHintIndex :
          showHint(index) =>
              /\ showHints' = showHints \cup {index}
              /\ attempts' = attempts
              /\ output' = output
              /\ currentLesson' = currentLesson
              /\ sessionCompletions' = sessionCompletions
              /\ saves' = saves]_vars

\* C23 witness: hint 1 revealed by hand next to hint 0, after three
\* attempts.
C23_Witness ==
    /\ attempts = 3
    /\ showHints = {0, 1}

\* C24: Reset sets attempts to 0 and the revealed hints to none, and leaves
\* the current lesson, the lesson list, the progress records and the
\* profiles as they are.
C24_ResetFrame ==
    [][resetCode =>
          /\ attempts' = 0
          /\ showHints' = {}
          /\ currentLesson' = currentLesson
          /\ lessons' = lessons
          /\ user_progress' = user_progress
          /\ profiles' = profiles
          /\ saves' = saves]_vars

\* C24 witness: a reset after a completion that was stored and scored.
C24_Witness ==
    /\ sessionCompletions >= 1
    /\ attempts = 0
    /\ showHints = {}
    /\ output = <<>>
    /\ UserRecords # {}
    /\ HasProfile
    /\ Profile.total_lessons_completed >= 1

\* C25: every progress record has attempts >= 1; the call a Pass makes
\* carries the session's attempts, the passing one included, and the number
\* of hints revealed then; and the row the store takes from a call carries
\* the call's values.
C25_RecordCarriesSessionCounts ==
    [][/\ \A r \in user_progress' : r.attempts >= 1
       /\ (checkSolution /\ Len(saves') = Len(saves) + 1) =>
              /\ saves'[Len(saves')].attempts = attempts + 1
              /\ saves'[Len(saves')].hints_used = Cardinality(showHints)
              /\ saves'[Len(saves')].lesson_id = currentLesson.id
       /\ \A i \in 1..MaxCompletions :
              InsertStep(i) =>
                  \A r \in user_progress' \ user_progress :
                     /\ r.lesson_id = saves[i].lesson_id
                     /\ r.attempts = saves[i].attempts
                     /\ r.hints_used = saves[i].hints_used]_vars

\* C25 witness: the record of a lesson passed at the second attempt with
\* one hint revealed.
C25_Witness ==
    \E r \in user_progress : r.attempts = 2 /\ r.hints_used = 1

\* C26: an empty submitted output passes exactly when the expected output
\* is made of white space only (is empty once trimmed), and fails otherwise.
C26_EmptyOutput ==
    (evVerdict # "none" /\ evOutput = <<>>) =>
        evVerdict = IF \A k \in DOMAIN evExpected : evExpected[k] \in WhiteSpace
                    THEN "Pass"
                    ELSE "Fail"

\* C26 witness: the empty output passed against an expected output of
\* white space.
C26_Witness ==
    /\ evVerdict = "Pass"
    /\ evOutput = <<>>
    /\ evExpected = <<" ", "\n">>

====
